---- MODULE Spec2Model ----
(***************************************************************************)
(* Model of jupiter-swap-api-client/src/lib.rs: the JupiterSwapApiClient,  *)
(* its three request operations (quote, swap, swap_instructions) and the   *)
(* shared helper check_status_code_and_deserialize.                        *)
(*                                                                         *)
(* Strings that the code concatenates or inspects (base path, URL) are     *)
(* sequences of one-character strings.  Every call in flight is a record   *)
(* holding the position of its future (pc), the request it built, what it  *)
(* has received so far and the ordered log of the steps it has executed.   *)
(* Each `.await` on the transport (send, text, json) is one position at    *)
(* which the future is suspended; the environment resumes it by choosing   *)
(* the outcome reqwest reports.                                            *)
(***************************************************************************)
EXTENDS Naturals, Sequences, FiniteSets

VARIABLES client, ctor, calls

vars == <<client, ctor, calls>>

(* ------------------------------ bounds --------------------------------- *)

\* number of call slots (futures that may be in flight on the one client)
MaxCalls == 2
\* longest base path handed to new()
MaxBaseLen == 2
\* distinct request values a caller may pass
MaxReq == 2
\* distinct payloads a well-formed response body may carry
MaxPayload == 2

(* ------------------------------ strings -------------------------------- *)

\* pub const BASE_PATH: &str = "https://quote-api.jup.ag/v6";
BASE_PATH ==
    << "h","t","t","p","s",":","/","/","q","u","o","t","e","-","a","p","i",
       ".","j","u","p",".","a","g","/","v","6" >>

QUOTE_SUFFIX == << "/","q","u","o","t","e" >>

SWAP_SUFFIX == << "/","s","w","a","p" >>

SWAP_INSTRUCTIONS_SUFFIX ==
    << "/","s","w","a","p","-","i","n","s","t","r","u","c","t","i","o","n","s" >>

\* format!("{}<suffix>", self.base_path)
format(base_path, suffix) == base_path \o suffix

(* --------------------------- input domains ----------------------------- *)

Chars == {"a", "/"}

RECURSIVE StringsUpTo(_)
StringsUpTo(n) ==
    IF n = 0 THEN {<< >>}
    ELSE LET shorter == StringsUpTo(n - 1)
         IN  shorter \cup {Append(s, ch) : s \in shorter, ch \in Chars}

\* every String a caller may pass to new(): the empty one included
BasePaths == StringsUpTo(MaxBaseLen)

Handles == {"client1"}

Callers == 1..MaxCalls

Requests == 1..MaxReq

Ops == {"quote", "swap", "swap_instructions"}

Shapes == {"QuoteResponse", "SwapResponse", "SwapInstructionsResponseInternal"}

\* status codes on both sides of the 2xx range
Statuses == {100, 200, 299, 300, 404}

\* a body whose bytes are JSON of shape s carrying payload p
Json(s, p) == [json |-> TRUE, shape |-> s, payload |-> p]

\* a body that is JSON of no expected shape (an error page, an empty body)
Malformed == [json |-> FALSE, shape |-> "none", payload |-> 0]

Bodies == {Json(s, p) : s \in Shapes, p \in 1..MaxPayload} \cup {Malformed}

\* the reasons reqwest reports for a send() that yields no response
SendErrorKinds == {"Builder", "Request"}

(* ------------------------------ values --------------------------------- *)

None == [tag |-> "None"]

Ok(v) == [tag |-> "Ok", value |-> v]

Err(e) == [tag |-> "Err", error |-> e]

\* a reqwest::Error, turned into anyhow::Error by `?` / map_err(Into::into)
ReqwestError(kind) == [type |-> "reqwest::Error", kind |-> kind]

NoRequest == [method |-> "none", url |-> << >>, encoding |-> "none", of |-> 0]

Idle ==
    [pc |-> "idle", op |-> "none", arg |-> 0, request |-> NoRequest, sent |-> 0,
     status |-> 0, body |-> None, piped |-> None, result |-> None, log |-> << >>]

(* ------------------- reqwest, as lib.rs uses it ----------------------- *)

\* mutant: everything from 200 up to the 4xx range passes
is_success_below_400(status) == status >= 200 /\ status < 400

\* response.status().is_success(): the 2xx range
is_success(status) == status >= 200 /\ status < 300

\* response.text().await: the body as text, or the error of the failed read
text(body, readable) ==
    IF readable THEN Ok(body) ELSE Err(ReqwestError("Body"))

\* serde's Deserialize of the expected shape T, applied to the body read
from_json(T, body) ==
    IF body.json /\ body.shape = T
    THEN Ok([type |-> T, payload |-> body.payload])
    ELSE Err(ReqwestError("Decode"))

\* response.json::<T>().await: read the whole body, then parse it as T
json(T, body, readable) ==
    IF readable THEN from_json(T, body) ELSE Err(ReqwestError("Body"))

\* SwapInstructionsResponseInternal -> SwapInstructionsResponse (Into::into)
into(internal) ==
    [type |-> "SwapInstructionsResponse", payload |-> internal.payload]

(* ------------------------- client construction ------------------------- *)

\* mutant: the canonical base path written with a trailing slash
default_trailing_slash(handle) ==
    [client |-> handle, base_path |-> Append(BASE_PATH, "/")]

\* JupiterSwapApiClient::new(base_path, client): the fields as given
new(base_path, handle) == [client |-> handle, base_path |-> base_path]

\* Default::default(): a fresh Client and the canonical base path
default(handle) == [client |-> handle, base_path |-> BASE_PATH]

(* --------------------------- request building -------------------------- *)

\* self.client.get(url).query(&quote_request)
quote_request(self, request) ==
    [method |-> "GET", url |-> format(self.base_path, QUOTE_SUFFIX),
     encoding |-> "query", of |-> request]

\* self.client.post(format!("{}/swap", self.base_path)).json(swap_request)
swap_request(self, request) ==
    [method |-> "POST", url |-> format(self.base_path, SWAP_SUFFIX),
     encoding |-> "json", of |-> request]

\* mutant: swap_instructions posts to the swap endpoint
swap_instructions_to_swap(self, request) ==
    [method |-> "POST", url |-> format(self.base_path, SWAP_SUFFIX),
     encoding |-> "json", of |-> request]

\* self.client.post(format!("{}/swap-instructions", ...)).json(swap_request)
swap_instructions_request(self, request) ==
    [method |-> "POST", url |-> format(self.base_path, SWAP_INSTRUCTIONS_SUFFIX),
     encoding |-> "json", of |-> request]

build_request(op, self, request) ==
    CASE op = "quote" -> quote_request(self, request)
      [] op = "swap" -> swap_request(self, request)
      [] op = "swap_instructions" -> swap_instructions_request(self, request)

\* the shape each operation instantiates check_status_code_and_deserialize with
expected_shape(op) ==
    CASE op = "quote" -> "QuoteResponse"
      [] op = "swap" -> "SwapResponse"
      [] op = "swap_instructions" -> "SwapInstructionsResponseInternal"

(* ------------------------ the shared pipeline -------------------------- *)

\* mutant: text().await? - a failed body read replaces the status error
status_error_propagating(status, text_result) ==
    IF text_result.tag = "Err" THEN text_result
    ELSE Err([type |-> "anyhow!", status |-> status, body |-> text_result])

\* the anyhow! error of check_is_success: status and {:?} of text().await
status_error(status, text_result) ==
    Err([type |-> "anyhow!", status |-> status, body |-> text_result])

\* mutant: no status check, the body is decoded whatever the status
check_is_success_unchecked(status) ==
    [pc |-> "json", steps |-> << "json" >>]

\* what check_is_success does with a response right after it is received:
\* the position it suspends at next and the steps it has run
check_is_success(status) ==
    IF ~is_success(status)
    THEN [pc |-> "text", steps |-> << "status", "text" >>]
    ELSE [pc |-> "json", steps |-> << "status", "json" >>]

\* mutant: swap_instructions returns the pipeline's value unconverted
finish_unconverted(op, piped) == piped

\* the tail of each operation, applied to the pipeline's result:
\* swap_instructions ends in .map(Into::into), quote and swap in nothing
finish(op, piped) ==
    IF op = "swap_instructions"
    THEN IF piped.tag = "Ok" THEN Ok(into(piped.value)) ELSE piped
    ELSE piped

\* the steps the tail adds to the log
finish_steps(op, piped) ==
    IF op = "swap_instructions" /\ piped.tag = "Ok" THEN << "into" >> ELSE << >>

\* what the call has of the body once the read is over: the bytes, or nothing
\* when the read failed
captured(body, readable) ==
    IF readable THEN [readable |-> TRUE, bytes |-> body]
    ELSE [readable |-> FALSE, bytes |-> None]

(* ------------------------------ actions -------------------------------- *)

Init ==
    /\ \E h \in Handles :
         \/ /\ client = default(h)
            /\ ctor = [via |-> "default", base_path |-> << >>, handle |-> h]
         \/ \E bp \in BasePaths :
              /\ client = new(bp, h)
              /\ ctor = [via |-> "new", base_path |-> bp, handle |-> h]
    /\ calls = [c \in Callers |-> Idle]

\* mutant: the endpoint suffix is pushed onto self.base_path
Call_appending(c, op, request) ==
    /\ calls[c].pc = "idle"
    /\ calls' = [calls EXCEPT ![c] =
                   [@ EXCEPT !.pc = "send", !.op = op, !.arg = request,
                             !.request = build_request(op, client, request),
                             !.sent = @ + 1,
                             !.log = Append(@, "send")]]
    /\ client' = [client EXCEPT !.base_path = build_request(op, client, request).url]
    /\ UNCHANGED ctor

\* quote / swap / swap_instructions up to the first await: build the request
\* from &self and the argument, call send() and suspend on it
Call(c, op, request) ==
    /\ calls[c].pc = "idle"
    /\ calls' = [calls EXCEPT ![c] =
                   [@ EXCEPT !.pc = "send", !.op = op, !.arg = request,
                             !.request = build_request(op, client, request),
                             !.sent = @ + 1,
                             !.log = Append(@, "send")]]
    /\ UNCHANGED <<client, ctor>>

\* mutant: a failed send is retried once before the error is returned
SendFails_retrying(c, kind) ==
    /\ calls[c].pc = "send"
    /\ calls' = [calls EXCEPT ![c] =
                   IF @.sent < 2
                   THEN [@ EXCEPT !.sent = @ + 1, !.log = Append(@, "send")]
                   ELSE [@ EXCEPT !.pc = "done",
                                  !.result = Err(ReqwestError(kind))]]
    /\ UNCHANGED <<client, ctor>>

\* send().await? yields Err: the operation returns it at once
SendFails(c, kind) ==
    /\ calls[c].pc = "send"
    /\ calls' = [calls EXCEPT ![c] =
                   [@ EXCEPT !.pc = "done",
                             !.result = Err(ReqwestError(kind))]]
    /\ UNCHANGED <<client, ctor>>

\* mutant: a non-2xx status is reported at once, without reading the body
SendSucceeds_no_body_text(c, status) ==
    /\ calls[c].pc = "send"
    /\ LET piped == status_error(status, Err(ReqwestError("Body")))
       IN  calls' = [calls EXCEPT ![c] =
                       IF is_success(status)
                       THEN [@ EXCEPT !.pc = "json", !.status = status,
                                      !.log = @ \o << "status", "json" >>]
                       ELSE [@ EXCEPT !.pc = "done", !.status = status,
                                      !.body = captured(Malformed, FALSE),
                                      !.piped = piped,
                                      !.result = finish(calls[c].op, piped),
                                      !.log = @ \o << "status" >>]]
    /\ UNCHANGED <<client, ctor>>

\* send().await? yields the response (status line and headers): the operation
\* enters check_status_code_and_deserialize, which runs check_is_success and
\* suspends on text() or on json()
SendSucceeds(c, status) ==
    /\ calls[c].pc = "send"
    /\ LET next == check_is_success(status)
       IN  calls' = [calls EXCEPT ![c] =
                       [@ EXCEPT !.pc = next.pc, !.status = status,
                                 !.log = @ \o next.steps]]
    /\ UNCHANGED <<client, ctor>>

\* response.text().await completes (either way): check_is_success returns the
\* anyhow! error, `?` returns it from the pipeline, the operation returns it
TextCompletes(c, body, readable) ==
    /\ calls[c].pc = "text"
    /\ LET piped == status_error(calls[c].status, text(body, readable))
       IN  calls' = [calls EXCEPT ![c] =
                       [@ EXCEPT !.pc = "done",
                                 !.body = captured(body, readable),
                                 !.piped = piped,
                                 !.result = finish(calls[c].op, piped),
                                 !.log = @ \o finish_steps(calls[c].op, piped)]]
    /\ UNCHANGED <<client, ctor>>

\* mutant: the body is read into a buffer shared by the calls, so a read fails
\* while another call is reading too
JsonCompletes_shared_buffer(c, body, readable) ==
    /\ calls[c].pc = "json"
    /\ LET alone == \A d \in Callers : d = c \/ calls[d].pc # "json"
           piped == json(expected_shape(calls[c].op), body, readable /\ alone)
       IN  calls' = [calls EXCEPT ![c] =
                       [@ EXCEPT !.pc = "done",
                                 !.body = captured(body, readable),
                                 !.piped = piped,
                                 !.result = finish(calls[c].op, piped),
                                 !.log = @ \o finish_steps(calls[c].op, piped)]]
    /\ UNCHANGED <<client, ctor>>

\* response.json::<T>().await completes: the pipeline returns its result and
\* the operation returns it, swap_instructions after .map(Into::into)
JsonCompletes(c, body, readable) ==
    /\ calls[c].pc = "json"
    /\ LET piped == json(expected_shape(calls[c].op), body, readable)
       IN  calls' = [calls EXCEPT ![c] =
                       [@ EXCEPT !.pc = "done",
                                 !.body = captured(body, readable),
                                 !.piped = piped,
                                 !.result = finish(calls[c].op, piped),
                                 !.log = @ \o finish_steps(calls[c].op, piped)]]
    /\ UNCHANGED <<client, ctor>>

\* the caller takes the result; every per-call object is dropped
Return(c) ==
    /\ calls[c].pc = "done"
    /\ calls' = [calls EXCEPT ![c] = Idle]
    /\ UNCHANGED <<client, ctor>>

\* one caller, one call at a time, every input
Next ==
    \/ \E op \in Ops, request \in Requests : Call(1, op, request)
    \/ \E kind \in SendErrorKinds : SendFails(1, kind)
    \/ \E status \in Statuses : SendSucceeds(1, status)
    \/ \E body \in Bodies, readable \in BOOLEAN : TextCompletes(1, body, readable)
    \/ \E body \in Bodies, readable \in BOOLEAN : JsonCompletes(1, body, readable)
    \/ Return(1)

Spec == Init /\ [][Next]_vars

(* --------------------- several callers, one client --------------------- *)

ConcBasePaths == {<< "a" >>}

ConcStatuses == {200, 404}

ConcBodies == {Json(s, 1) : s \in Shapes} \cup {Malformed}

InitConc ==
    /\ \E h \in Handles :
         \/ /\ client = default(h)
            /\ ctor = [via |-> "default", base_path |-> << >>, handle |-> h]
         \/ \E bp \in ConcBasePaths :
              /\ client = new(bp, h)
              /\ ctor = [via |-> "new", base_path |-> bp, handle |-> h]
    /\ calls = [c \in Callers |-> Idle]

\* every caller shares &self and passes its own request value; the futures
\* are polled in any order
NextConc ==
    \/ \E c \in Callers, op \in Ops : Call(c, op, c)
    \/ \E c \in Callers : SendFails(c, "Request")
    \/ \E c \in Callers, status \in ConcStatuses : SendSucceeds(c, status)
    \/ \E c \in Callers, body \in ConcBodies, readable \in BOOLEAN :
         TextCompletes(c, body, readable)
    \/ \E c \in Callers, body \in ConcBodies, readable \in BOOLEAN :
         JsonCompletes(c, body, readable)
    \/ \E c \in Callers : Return(c)

SpecConc == InitConc /\ [][NextConc]_vars

(* ------------------------ vocabulary of the claims --------------------- *)

Is2xx(status) == status \in 200..299

\* a response (status line) has been received by call c
Received(c) == calls[c].status # 0

Done(c) == calls[c].pc = "done"

\* the body of call c has been read (or its read has failed)
BodySeen(c) == calls[c].body # None

Count(log, step) == Cardinality({i \in 1..Len(log) : log[i] = step})

Awaits(log) == Count(log, "send") + Count(log, "text") + Count(log, "json")

\* the body received by call c parses as the shape its operation expects
Parseable(c) ==
    /\ calls[c].body.readable
    /\ calls[c].body.bytes.json
    /\ calls[c].body.bytes.shape = expected_shape(calls[c].op)

\* what the caller can tell from the returned value alone
Kind(result) ==
    IF result.tag = "Ok" THEN "Value"
    ELSE IF result.tag # "Err" THEN "None"
    ELSE IF result.error.type = "anyhow!" THEN "Status"
    ELSE IF result.error.kind = "Decode" THEN "Decode"
    ELSE "Transport"

PublicType(op) ==
    CASE op = "quote" -> "QuoteResponse"
      [] op = "swap" -> "SwapResponse"
      [] op = "swap_instructions" -> "SwapInstructionsResponse"

Last(s) == s[Len(s)]

NoTrailingSlash(s) == s # << >> /\ Last(s) # "/"

(* ------------------------------- claims -------------------------------- *)

\* C1: status before body.  json() is invoked only after the status check and
\* only on a 2xx status; a call that received a non-2xx status and a body that
\* does not parse as the expected shape ends in a Status error carrying that
\* status code, never in a Decode error.
C1_StatusBeforeBody ==
    \A c \in Callers :
      LET call == calls[c] IN
      /\ Count(call.log, "json") > 0 =>
           /\ Is2xx(call.status)
           /\ \E i, j \in 1..Len(call.log) :
                i < j /\ call.log[i] = "status" /\ call.log[j] = "json"
      /\ (Received(c) /\ ~Is2xx(call.status)) => Count(call.log, "json") = 0
      /\ (Done(c) /\ Received(c) /\ ~Is2xx(call.status) /\ ~Parseable(c)) =>
           /\ Kind(call.result) = "Status"
           /\ call.result.error.status = call.status

C1_Witness ==
    \E c \in Callers :
      /\ Done(c) /\ calls[c].status = 404
      /\ calls[c].body.readable /\ calls[c].body.bytes = Malformed
      /\ Kind(calls[c].result) = "Status"

C3_NoRetry ==
    \A c \in Callers :
      LET call == calls[c] IN
      /\ call.sent <= 1
      /\ Count(call.log, "send") = call.sent
      /\ (Done(c) /\ ~Received(c)) =>
           /\ call.log = << "send" >>
           /\ ~BodySeen(c)
           /\ Kind(call.result) = "Transport"
      /\ (Done(c) /\ Kind(call.result) # "Value") => call.sent = 1

C3_Witness ==
    \E c \in Callers :
      Done(c) /\ ~Received(c) /\ calls[c].sent = 1 /\ calls[c].result.tag = "Err"

\* C4: request construction.  quote sends GET base_path + "/quote" with the
\* request as query parameters; swap sends POST base_path + "/swap" and
\* swap_instructions POST base_path + "/swap-instructions", both with the
\* request as JSON body.
C4_RequestConstruction ==
    \A c \in Callers :
      LET call == calls[c] IN
      call.pc # "idle" =>
        /\ call.op = "quote" =>
             call.request = [method |-> "GET", url |-> client.base_path \o QUOTE_SUFFIX,
                             encoding |-> "query", of |-> call.arg]
        /\ call.op = "swap" =>
             call.request = [method |-> "POST", url |-> client.base_path \o SWAP_SUFFIX,
                             encoding |-> "json", of |-> call.arg]
        /\ call.op = "swap_instructions" =>
             call.request = [method |-> "POST",
                             url |-> client.base_path \o SWAP_INSTRUCTIONS_SUFFIX,
                             encoding |-> "json", of |-> call.arg]

C4_Witness ==
    \E c \in Callers :
      /\ calls[c].op = "swap_instructions" /\ calls[c].arg = 2
      /\ calls[c].request.method = "POST"
      /\ calls[c].request.url = BASE_PATH \o SWAP_INSTRUCTIONS_SUFFIX

\* C5: best-effort body text.  On a non-2xx status text() is invoked exactly
\* once; whether the read succeeds or fails the result is a Status error with
\* the status code; a successful read is carried as the text, a failed read as
\* no text, and never turns the result into a Transport or Decode error.
C5_BestEffortBodyText ==
    \A c \in Callers :
      LET call == calls[c] IN
      (Received(c) /\ ~Is2xx(call.status)) =>
        /\ Count(call.log, "text") = 1
        /\ Done(c) =>
             /\ Kind(call.result) = "Status"
             /\ call.result.error.status = call.status
             /\ call.body.readable => call.result.error.body = Ok(call.body.bytes)
             /\ ~call.body.readable => call.result.error.body.tag = "Err"

C5_Witness ==
    \E c \in Callers :
      /\ Done(c) /\ calls[c].status = 404 /\ ~calls[c].body.readable
      /\ Kind(calls[c].result) = "Status"
      /\ calls[c].result.error.body.tag = "Err"

\* C6: decode versus transform.  swap_instructions decodes the body as
\* SwapInstructionsResponseInternal and converts only afterwards and only a
\* decoded value; a failed pipeline's error is returned unchanged.  quote and
\* swap return the pipeline's result unchanged and never convert.
C6_DecodeThenTransform ==
    \A c \in Callers :
      LET call == calls[c] IN
      (Done(c) /\ call.piped # None) =>
        /\ call.op = "swap_instructions" =>
             /\ Count(call.log, "into") = (IF call.piped.tag = "Ok" THEN 1 ELSE 0)
             /\ call.piped.tag = "Ok" =>
                  /\ call.piped.value.type = "SwapInstructionsResponseInternal"
                  /\ Last(call.log) = "into"
                  /\ call.log[Len(call.log) - 1] = "json"
                  /\ call.result.tag = "Ok"
                  /\ call.result.value.type = "SwapInstructionsResponse"
                  /\ call.result.value.payload = call.piped.value.payload
             /\ call.piped.tag = "Err" => call.result = call.piped
        /\ call.op \in {"quote", "swap"} =>
             /\ Count(call.log, "into") = 0
             /\ call.result = call.piped

C6_Witness ==
    \E c \in Callers :
      /\ Done(c) /\ calls[c].op = "swap_instructions"
      /\ calls[c].piped.tag = "Ok" /\ calls[c].result.tag = "Ok"
      /\ calls[c].result.value.type = "SwapInstructionsResponse"

\* C7 as stated: on the success path (2xx status, body decoded) a call has
\* exactly one suspension point, and a second one exists only after a failed
\* status validation.
C7_OneSuspensionOnSuccess ==
    \A c \in Callers :
      LET call == calls[c] IN
      /\ (Done(c) /\ Kind(call.result) = "Value") => Awaits(call.log) = 1
      /\ Awaits(call.log) > 1 => (Received(c) /\ ~Is2xx(call.status))

\* C7 amended: a call awaits send() exactly once; if no response is received
\* that is its only suspension point; if a response is received it awaits the
\* body read exactly once more - text() on a non-2xx status, json() on a 2xx
\* status - so the success path has exactly two suspension points.
C7_SuspensionPoints ==
    \A c \in Callers :
      LET call == calls[c] IN
      call.pc # "idle" =>
        /\ Count(call.log, "send") = 1
        /\ ~Received(c) => Awaits(call.log) = 1
        /\ Received(c) =>
             /\ Awaits(call.log) = 2
             /\ Is2xx(call.status) =>
                  (Count(call.log, "json") = 1 /\ Count(call.log, "text") = 0)
             /\ ~Is2xx(call.status) =>
                  (Count(call.log, "text") = 1 /\ Count(call.log, "json") = 0)
        /\ (Done(c) /\ Kind(call.result) = "Value") => Awaits(call.log) = 2

C7_Witness ==
    \E c \in Callers :
      /\ Done(c) /\ Kind(calls[c].result) = "Value"
      /\ calls[c].log = << "send", "status", "json" >>

\* the client exactly as its constructor built it
AsConstructed ==
    IF ctor.via = "default"
    THEN [client |-> ctor.handle, base_path |-> BASE_PATH]
    ELSE [client |-> ctor.handle, base_path |-> ctor.base_path]

\* the result of a call that runs alone, from its own operation, the status it
\* received and the body it read
AloneResult(op, status, body) ==
    IF ~Is2xx(status)
    THEN status_error(status, text(body.bytes, body.readable))
    ELSE finish(op, json(expected_shape(op), body.bytes, body.readable))

\* C8: concurrent calls on one client.  No operation modifies the base path
\* or the transport handle, and under every interleaving each call's request
\* is built from the client as constructed and its own argument, and its
\* result is the one its own response gives when the call runs alone.
C8_ConcurrentCalls ==
    /\ client = AsConstructed
    /\ \A c \in Callers :
         LET call == calls[c] IN
         /\ call.pc # "idle" =>
              /\ call.arg = c
              /\ call.request = build_request(call.op, AsConstructed, c)
         /\ (Done(c) /\ ~Received(c)) => call.result = Err(ReqwestError("Request"))
         /\ (Done(c) /\ Received(c)) =>
              call.result = AloneResult(call.op, call.status, call.body)

C8_Witness ==
    \E c1, c2 \in Callers :
      /\ c1 # c2 /\ Done(c1) /\ Done(c2)
      /\ calls[c1].op = "quote" /\ Kind(calls[c1].result) = "Value"
      /\ calls[c2].op = "swap" /\ Kind(calls[c2].result) = "Status"
      /\ calls[c1].request.url # calls[c2].request.url

RECURSIVE SlashRun(_, _)
\* length of the run of slashes of s that ends at position i
SlashRun(s, i) ==
    IF i = 0 THEN 0
    ELSE IF s[i] # "/" THEN 0
    ELSE 1 + SlashRun(s, i - 1)

\* slashes between the base path and the endpoint name in a URL built from it
JunctionSlashes(url, base_path) == SlashRun(url, Len(base_path) + 1)

\* C9 as stated: the base path of every constructed client is non-empty with
\* no trailing slash, and every endpoint URL has exactly one slash between the
\* base path and the endpoint name.
C9_BasePathInvariant ==
    /\ NoTrailingSlash(client.base_path)
    /\ \A c \in Callers :
         calls[c].pc # "idle" =>
           JunctionSlashes(calls[c].request.url, client.base_path) = 1

\* C9 amended: default() yields the canonical base path, which is non-empty
\* and has no trailing slash; new() stores whatever string it is given,
\* unvalidated; every endpoint URL is base path + suffix and has exactly one
\* slash at the junction exactly when the base path does not end in a slash.
C9_BasePathAsGiven ==
    /\ ctor.via = "default" =>
         (client.base_path = BASE_PATH /\ NoTrailingSlash(client.base_path))
    /\ ctor.via = "new" => client.base_path = ctor.base_path
    /\ \A c \in Callers :
         calls[c].pc # "idle" =>
           /\ \E suffix \in {QUOTE_SUFFIX, SWAP_SUFFIX, SWAP_INSTRUCTIONS_SUFFIX} :
                calls[c].request.url = client.base_path \o suffix
           /\ (JunctionSlashes(calls[c].request.url, client.base_path) = 1)
                <=> (client.base_path = << >> \/ Last(client.base_path) # "/")

C9_Witness ==
    /\ ctor.via = "new" /\ client.base_path = << "a", "/" >>
    /\ \E c \in Callers :
         /\ calls[c].op = "quote"
         /\ calls[c].request.url = << "a", "/", "/", "q", "u", "o", "t", "e" >>

\* C10: decode determinism.  Two completed calls that ran the pipeline with
\* the same expected shape on the same captured response (status, outcome of
\* the body read, body bytes) hold the same pipeline result and the same
\* returned result, whatever was called before and whatever else is in flight.
C10_DecodeDeterminism ==
    \A c1, c2 \in Callers :
      (/\ Done(c1) /\ Done(c2) /\ BodySeen(c1) /\ BodySeen(c2)
       /\ expected_shape(calls[c1].op) = expected_shape(calls[c2].op)
       /\ calls[c1].status = calls[c2].status
       /\ calls[c1].body = calls[c2].body)
      => /\ calls[c1].piped = calls[c2].piped
         /\ calls[c1].result = calls[c2].result

C10_Witness ==
    \E c1, c2 \in Callers :
      /\ c1 # c2 /\ Done(c1) /\ Done(c2)
      /\ calls[c1].op = "swap_instructions" /\ calls[c2].op = "swap_instructions"
      /\ calls[c1].status = 200 /\ calls[c2].status = 200
      /\ calls[c1].body = calls[c2].body /\ calls[c1].body.readable
      /\ calls[c1].piped.tag = "Ok" /\ calls[c1].piped = calls[c2].piped

====
